---- MODULE Spec2Model ----
(***************************************************************************)
(* STEPanizerizer.py: one run of the script is a straight pipeline         *)
(* (option checks, pixel size, output folder, glob, image shape, resize    *)
(* check, logging, scale bar, common prefix, step width, random start,     *)
(* export loop, completion banner).  Every statement group of the script   *)
(* is one action; pc is the position of the script.                        *)
(*                                                                         *)
(* Lengths in micrometres that the script holds as floats (pixel size,     *)
(* slice distance) are held in half micrometres, so every value is exact   *)
(* in binary floating point and float division followed by floor or round  *)
(* agrees with the integer arithmetic below.  Strings are sequences of     *)
(* one-character strings.                                                  *)
(***************************************************************************)
EXTENDS Integers, Sequences, FiniteSets, TLC

VARIABLES
    pc,                  \* position of the script
    options,             \* optparse values (pixelsize and resize are rewritten by the script)
    status,              \* exit status of the process, -1 while it runs
    error,               \* what ended the run: a parser.error, a sys.exit or an uncaught exception
    fs,                  \* output folders on disk: OutFolder -> [files, haslog, log]
    OutFolder,
    ReconstructionNames,
    ImageShape,
    longest_side,
    ScaleBarPixels,
    CommonPrefix,
    StepWidth,
    start,               \* the value numpy.random.randint(StepWidth) returned
    selected,            \* ReconstructionNames[start::StepWidth]
    c,                   \* enumerate() counter of the export loop
    rec,                 \* the image being exported: shape and the rectangle set to 255
    draws,               \* calls of numpy.random.randint in this run
    runs                 \* number of runs of the script started so far

vars == <<pc, options, status, error, fs, OutFolder, ReconstructionNames, ImageShape,
          longest_side, ScaleBarPixels, CommonPrefix, StepWidth, start, selected, c,
          rec, draws, runs>>

----------------------------------------------------------------------------
(* Bounds of the model *)

MaxTotal == 7        \* at most this many reconstructions in rec_HU
MaxNumFiles == 8     \* -n ranges over 0..MaxNumFiles (0: not given)
MaxStack == 99       \* stack sizes of the common-prefix specification

----------------------------------------------------------------------------
(* Arithmetic *)

Max(a, b) == IF a >= b THEN a ELSE b
Min(a, b) == IF a <= b THEN a ELSE b

\* Python 3 round() and C's %0.f of the exact rational n/d (d > 0): to nearest, ties to even.
RoundHalfEven(n, d) ==
    LET q == n \div d
        r == n % d
    IN  IF 2 * r < d THEN q
        ELSE IF 2 * r > d THEN q + 1
        ELSE IF q % 2 = 0 THEN q ELSE q + 1

\* '%0.f' % x for x held in half micrometres
Fmt0f(x) == RoundHalfEven(x, 2)

\* numpy basic slicing a[lo:hi] on an axis of length n: negative indices count from
\* the end, out-of-range indices are clipped, an empty range selects nothing.
SliceBound(k, n) == IF k < 0 THEN Max(k + n, 0) ELSE Min(k, n)
AxisSlice(lo, hi, n) ==
    LET a == SliceBound(lo, n)
        b == SliceBound(hi, n)
    IN  IF a < b THEN <<a, b>> ELSE <<a, a>>

----------------------------------------------------------------------------
(* Strings *)

Digit(k) == CASE k = 0 -> "0" [] k = 1 -> "1" [] k = 2 -> "2" [] k = 3 -> "3"
              [] k = 4 -> "4" [] k = 5 -> "5" [] k = 6 -> "6" [] k = 7 -> "7"
              [] k = 8 -> "8" [] k = 9 -> "9"

\* '%s' % n for an integer n >= 0: decimal, no leading zeros
RECURSIVE Str(_)
Str(n) == IF n < 10 THEN <<Digit(n)>> ELSE Str(n \div 10) \o <<Digit(n % 10)>>

\* the four-digit zero-padded slice number of a reconstruction file name
Pad4(n) == <<Digit((n \div 1000) % 10), Digit((n \div 100) % 10),
             Digit((n \div 10) % 10), Digit(n % 10)>>

\* s < t in Python's string order, with characters ordered as the code points of
\* the characters the model uses
CodePoint(ch) ==
    CASE ch = "." -> 46 [] ch = "0" -> 48 [] ch = "1" -> 49 [] ch = "2" -> 50
      [] ch = "3" -> 51 [] ch = "4" -> 52 [] ch = "5" -> 53 [] ch = "6" -> 54
      [] ch = "7" -> 55 [] ch = "8" -> 56 [] ch = "9" -> 57 [] ch = "H" -> 72
      [] ch = "I" -> 73 [] ch = "L" -> 76 [] ch = "R" -> 82 [] ch = "S" -> 83
      [] ch = "U" -> 85 [] ch = "_" -> 95 [] ch = "a" -> 97 [] ch = "c" -> 99
      [] ch = "e" -> 101 [] ch = "g" -> 103 [] ch = "l" -> 108 [] ch = "m" -> 109
      [] ch = "n" -> 110 [] ch = "p" -> 112 [] ch = "r" -> 114 [] ch = "t" -> 116
      [] ch = "u" -> 117

RECURSIVE StrLess(_, _)
StrLess(s, t) ==
    IF t = <<>> THEN FALSE
    ELSE IF s = <<>> THEN TRUE
    ELSE IF Head(s) = Head(t) THEN StrLess(Tail(s), Tail(t))
    ELSE CodePoint(Head(s)) < CodePoint(Head(t))

RECURSIVE SetToSeq(_)
SetToSeq(S) == IF S = {} THEN <<>>
               ELSE LET x == CHOOSE y \in S : TRUE IN <<x>> \o SetToSeq(S \ {x})

\* sorted(names)
Sorted(S) == SortSeq(SetToSeq(S), StrLess)

\* os.path.commonprefix(list): the longest string every member starts with
commonprefix(names) ==
    IF Len(names) = 0 THEN <<>>
    ELSE LET first == names[1]
             agree(k) == \A i \in DOMAIN names :
                            Len(names[i]) >= k /\ SubSeq(names[i], 1, k) = SubSeq(first, 1, k)
             longest == CHOOSE k \in 0..Len(first) :
                            agree(k) /\ \A m \in (k + 1)..Len(first) : ~agree(m)
         IN  SubSeq(first, 1, longest)

\* str.rstrip(chars): drop trailing characters that are in the SET chars
RECURSIVE rstrip(_, _)
rstrip(s, chars) ==
    IF s # <<>> /\ s[Len(s)] \in chars THEN rstrip(SubSeq(s, 1, Len(s) - 1), chars) ELSE s

\* str.lstrip(chars)
RECURSIVE lstrip(_, _)
lstrip(s, chars) ==
    IF s # <<>> /\ Head(s) \in chars THEN lstrip(Tail(s), chars) ELSE s

\* str.strip(chars): both ends, chars is a set of characters, not a token
strip(s, chars) == lstrip(rstrip(s, chars), chars)

----------------------------------------------------------------------------
(* Inputs: the command line and what the run finds on disk *)

Chars(str) ==
    CASE str = "Sample" -> <<"S", "a", "m", "p", "l", "e">>
      [] str = "Lung" -> <<"L", "u", "n", "g">>
      [] str = "rat" -> <<"r", "a", "t">>
      [] str = "Sample_IR" -> <<"S", "a", "m", "p", "l", "e", "_", "I", "R">>
      [] str = "rec_HU" -> <<"r", "e", "c", "_", "H", "U">>
      [] str = "_rec" -> <<"_", "r", "e", "c">>
      [] str = "_IR" -> <<"_", "I", "R">>
      [] str = ".png" -> <<".", "p", "n", "g">>
      [] str = ".jpg" -> <<".", "j", "p", "g">>
      [] str = "_" -> <<"_">>
      [] str = "0" -> <<"0">>

\* the characters of a string, as a set (the argument of strip and rstrip)
CharSet(str) == {Chars(str)[k] : k \in DOMAIN Chars(str)}

\* a reconstruction file as the scanner software writes it: <stem>_rec<nnnn>.png
RecName(stem, n) == Chars(stem) \o Chars("_rec") \o Pad4(n) \o Chars(".png")

\* glob('<samplefolder>/rec_HU/*rec*.png') on a stack of total slices numbered from 1
GlobRecs(stem, total) == {RecName(stem, n) : n \in 1..total}

SampleFolders == {"", "Missing", "SampleA"}   \* not given, not an existing folder, existing
PixelSizes == {0, 20, 21}        \* -p in half um: not given, 10.0 um, 10.5 um
ScanLogs == {-1, 0, 22}          \* rec_HU/*.log: no log file, no 'Image Pixel' line, 11.0 um
SliceDistances == {0, 10, 44, 63}   \* -s in half um: not given, 5 um, 22 um, 31.5 um
ScaleBars == {0, 1000}           \* -b in um, default 1000
Resizes == {0, 128}              \* -r in px, 0: not given
Shapes == {<<100, 100>>, <<160, 200>>}   \* numpy shape (rows, columns) of the images

OptionSpace ==
    [samplefolder : SampleFolders, numfiles : 0..MaxNumFiles,
     slicedistance : SliceDistances, pixelsize : PixelSizes,
     disectorthickness : {0, 11}, scalebar : ScaleBars,
     resize : {<<r, 1>> : r \in Resizes}]

\* the narrower command lines of the rerun specification
RerunOptionSpace ==
    [samplefolder : {"SampleA"}, numfiles : {0, 2},
     slicedistance : {0, 44}, pixelsize : PixelSizes,
     disectorthickness : {0}, scalebar : {1000},
     resize : {<<0, 1>>}]

----------------------------------------------------------------------------
(* Values *)

NoFolder == [folder |-> "", recfolder |-> "", numfls |-> 0, slcdst |-> -1,
             pxsz |-> 0, sclbr |-> 0]
EmptyFolder == [files |-> {}, haslog |-> FALSE, log |-> <<>>]
NoBar == [rows |-> <<0, 0>>, cols |-> <<0, 0>>]
NoImage == [shape |-> <<0, 0>>, bar |-> NoBar]

\* one line of STEPanizerizer.log
Line(kind) == [kind |-> kind, c |-> 0, N |-> 0, src |-> <<>>, out |-> <<>>]

fromborder == 50

\* the numbering starts at 0, as enumerate() does, instead of at 1
SequenceNumberFromZero(k) == k

\* the number under which the c-th slice of the loop (c counted from 0) is written
SequenceNumber(k) == k + 1

\* '%s_%s.jpg' % (CommonPrefix, c + 1)
OutputName(prefix, k) == prefix \o Chars("_") \o Str(SequenceNumber(k)) \o Chars(".jpg")

\* OutFolder, as the fields its name is put together from
OutFolderName(opts) ==
    [folder |-> opts.samplefolder, recfolder |-> "rec_HU",
     numfls |-> opts.numfiles,
     slcdst |-> IF opts.slicedistance # 0 THEN Fmt0f(opts.slicedistance) ELSE -1,
     pxsz |-> Fmt0f(opts.pixelsize),
     sclbr |-> opts.scalebar]

\* int(round(options.scalebar / float(options.pixelsize)))
ScaleBarPixelsOf(opts) == RoundHalfEven(2 * opts.scalebar, opts.pixelsize)

\* a[start::step] of a Python list, start >= 0, step > 0
RECURSIVE PySlice(_, _, _)
PySlice(a, from, step) ==
    IF from >= Len(a) THEN <<>>
    ELSE <<a[from + 1]>> \o PySlice(a, from + step, step)

\* the step width rounded to nearest instead of floored
StepWidthRounded(opts, total) ==
    IF opts.slicedistance # 0 THEN RoundHalfEven(opts.slicedistance, opts.pixelsize)
    ELSE IF opts.numfiles # 0 THEN RoundHalfEven(total, opts.numfiles) ELSE 0

\* the step width kept from ever being 0
StepWidthAtLeastOne(opts, total) ==
    IF opts.slicedistance # 0 THEN Max(1, opts.slicedistance \div opts.pixelsize)
    ELSE IF opts.numfiles # 0 THEN Max(1, total \div opts.numfiles) ELSE 0

\* StepWidth: both if-statements of the script, in their order
StepWidthOf(opts, total) ==
    LET byCount == IF opts.numfiles # 0 THEN total \div opts.numfiles ELSE 0
    IN  IF opts.slicedistance # 0 THEN opts.slicedistance \div opts.pixelsize
        ELSE byCount

\* the upper end included, as random.randint(0, high) would
RandintInclusive(high) == IF high > 0 THEN 0..high ELSE {}

\* numpy.random.randint(high): the values it may return; none when it raises ValueError
RandintRange(high) == IF high > 0 THEN 0..(high - 1) ELSE {}

\* os.path.split(os.path.abspath(prefix))[1]: the part after the last separator;
\* when the file names share no leading character the prefix ends in the
\* separator, abspath drops it and the last component is the rec folder
LastComponent(prefix) == IF prefix = <<>> THEN Chars("rec_HU") ELSE prefix

\* .rstrip('0'), .strip('_rec') and .strip('_IR') of line 167
StripZeros(s) == rstrip(s, CharSet("0"))
StripRec(s) == strip(s, CharSet("_rec"))
StripIR(s) == strip(s, CharSet("_IR"))

\* CommonPrefix of the script, from the file names without their directory
CommonPrefixOf(names) == StripIR(StripRec(StripZeros(LastComponent(commonprefix(names)))))

\* the rectangle rec[lo_r:hi_r, lo_c:hi_c] = 255 of an image of the given shape
ScaleBarRegion(shape, sbp) ==
    [rows |-> AxisSlice(RoundHalfEven(-(10 * fromborder) - sbp, 10), -fromborder, shape[1]),
     cols |-> AxisSlice(-fromborder - sbp, -fromborder, shape[2])]

\* scipy.misc.imresize(rec, fraction): both sides times the fraction, truncated
Resized(shape, frac) == <<(shape[1] * frac[1]) \div frac[2], (shape[2] * frac[1]) \div frac[2]>>

----------------------------------------------------------------------------
(* The script *)

\* the state of a process that has just been started with the given command line
Started(opts) ==
    /\ pc = "options"
    /\ options = opts
    /\ status = -1
    /\ error = "none"
    /\ OutFolder = NoFolder
    /\ ReconstructionNames = <<>>
    /\ ImageShape = <<0, 0>>
    /\ longest_side = 0
    /\ ScaleBarPixels = 0
    /\ CommonPrefix = <<>>
    /\ StepWidth = 0
    /\ start = 0
    /\ selected = <<>>
    /\ c = 0
    /\ rec = NoImage
    /\ draws = 0

Init ==
    /\ \E opts \in OptionSpace : Started(opts)
    /\ fs = [f \in {} |-> EmptyFolder]
    /\ runs = 1

\* the process ends with the given error and exit status
Exit(kind, code) ==
    /\ pc' = "exit"
    /\ error' = kind
    /\ status' = code

\* logging.info(...) of the given lines, appended to STEPanizerizer.log
Logged(lines) == [fs EXCEPT ![OutFolder].log = @ \o lines]

\* lines 65-79: sanity check for options
SanityCheck ==
    /\ pc = "options"
    /\ IF options.samplefolder = ""
       THEN Exit("parser.error: need a sample folder", 2)
       ELSE IF options.numfiles = 0 /\ options.slicedistance = 0
       THEN Exit("parser.error: need -n or -s", 2)
       ELSE IF options.numfiles # 0 /\ options.slicedistance # 0
       THEN Exit("parser.error: -n and -s are mutually exclusive", 2)
       ELSE IF options.disectorthickness # 0
       THEN Exit("parser.error: disector not implemented", 2)
       ELSE /\ pc' = "pixelsize"
            /\ UNCHANGED <<error, status>>
    /\ UNCHANGED <<options, fs, OutFolder, ReconstructionNames, ImageShape, longest_side,
                   ScaleBarPixels, CommonPrefix, StepWidth, start, selected, c, rec,
                   draws, runs>>

\* lines 27-33 and 87-90: the pixel size, from the scan log unless -p gives it
GetPixelSize ==
    /\ pc = "pixelsize"
    /\ IF options.pixelsize # 0
       THEN /\ pc' = "makedirs"
            /\ UNCHANGED <<options, error, status>>
       ELSE IF options.samplefolder # "SampleA"
       THEN /\ Exit("IndexError", 1)
            /\ UNCHANGED options
       ELSE \E scanlog \in ScanLogs :
              IF scanlog = -1
              THEN Exit("IndexError", 1) /\ UNCHANGED options
              ELSE IF scanlog = 0
              THEN Exit("UnboundLocalError", 1) /\ UNCHANGED options
              ELSE /\ options' = [options EXCEPT !.pixelsize = scanlog]
                   /\ pc' = "makedirs"
                   /\ UNCHANGED <<error, status>>
    /\ UNCHANGED <<fs, OutFolder, ReconstructionNames, ImageShape, longest_side,
                   ScaleBarPixels, CommonPrefix, StepWidth, start, selected, c, rec,
                   draws, runs>>

\* os.makedirs(OutFolder, exist_ok=True): an existing folder is used as it is
MakeOutputDirectoryExistOk ==
    /\ pc = "makedirs"
    /\ OutFolder' = OutFolderName(options)
    /\ fs' = [f \in DOMAIN fs \cup {OutFolder'} |->
                 IF f \in DOMAIN fs THEN fs[f] ELSE EmptyFolder]
    /\ pc' = "glob"
    /\ UNCHANGED <<options, status, error, ReconstructionNames, ImageShape, longest_side,
                   ScaleBarPixels, CommonPrefix, StepWidth, start, selected, c, rec,
                   draws, runs>>

\* lines 92-106: os.makedirs(OutFolder), which also makes a missing sample folder
MakeOutputDirectory ==
    /\ pc = "makedirs"
    /\ OutFolder' = OutFolderName(options)
    /\ IF OutFolder' \in DOMAIN fs
       THEN /\ Exit("sys.exit: output folder exists", 1)
            /\ UNCHANGED fs
       ELSE /\ fs' = [f \in DOMAIN fs \cup {OutFolder'} |->
                        IF f = OutFolder' THEN EmptyFolder ELSE fs[f]]
            /\ pc' = "glob"
            /\ UNCHANGED <<error, status>>
    /\ UNCHANGED <<options, ReconstructionNames, ImageShape, longest_side,
                   ScaleBarPixels, CommonPrefix, StepWidth, start, selected, c, rec,
                   draws, runs>>

\* lines 108-116: the sorted reconstructions of rec_HU
FindReconstructions ==
    /\ pc = "glob"
    /\ \E total \in 0..MaxTotal :
         /\ options.samplefolder # "SampleA" => total = 0
         /\ ReconstructionNames' = Sorted(GlobRecs("Sample", total))
    /\ pc' = "shape"
    /\ UNCHANGED <<options, status, error, fs, OutFolder, ImageShape, longest_side,
                   ScaleBarPixels, CommonPrefix, StepWidth, start, selected, c, rec,
                   draws, runs>>

\* lines 121-122: the shape of one randomly chosen reconstruction
GetImageShape ==
    /\ pc = "shape"
    /\ IF ReconstructionNames = <<>>
       THEN /\ Exit("IndexError", 1)
            /\ UNCHANGED ImageShape
       ELSE \E shape \in Shapes, readable \in BOOLEAN :
              IF readable
              THEN /\ ImageShape' = shape
                   /\ pc' = "resize"
                   /\ UNCHANGED <<error, status>>
              ELSE /\ Exit("IOError", 1)
                   /\ UNCHANGED ImageShape
    /\ UNCHANGED <<options, fs, OutFolder, ReconstructionNames, longest_side,
                   ScaleBarPixels, CommonPrefix, StepWidth, start, selected, c, rec,
                   draws, runs>>

\* lines 123-130: the resize fraction, no upscaling
ResizeFraction ==
    /\ pc = "resize"
    /\ IF options.resize[1] # 0
       THEN /\ longest_side' = Max(ImageShape[1], ImageShape[2])
            /\ IF options.resize[1] > longest_side'
               THEN /\ Exit("parser.error: will not upscale", 2)
                    /\ UNCHANGED options
               ELSE /\ options' = [options EXCEPT !.resize = <<@[1], longest_side'>>]
                    /\ pc' = "logging"
                    /\ UNCHANGED <<error, status>>
       ELSE /\ pc' = "logging"
            /\ UNCHANGED <<options, longest_side, error, status>>
    /\ UNCHANGED <<fs, OutFolder, ReconstructionNames, ImageShape,
                   ScaleBarPixels, CommonPrefix, StepWidth, start, selected, c, rec,
                   draws, runs>>

\* lines 132-138: the log file is opened, then the start banner is written unless
\* 'git describe' fails
SetupLogging ==
    /\ pc = "logging"
    /\ \E git \in BOOLEAN :
         IF git
         THEN /\ fs' = [fs EXCEPT ![OutFolder].haslog = TRUE,
                                  ![OutFolder].log = @ \o <<Line("started"), Line("rule")>>]
              /\ pc' = "scalebar"
              /\ UNCHANGED <<error, status>>
         ELSE /\ fs' = [fs EXCEPT ![OutFolder].haslog = TRUE]
              /\ Exit("CalledProcessError", 1)
    /\ UNCHANGED <<options, OutFolder, ReconstructionNames, ImageShape, longest_side,
                   ScaleBarPixels, CommonPrefix, StepWidth, start, selected, c, rec,
                   draws, runs>>

\* lines 140-161: the pixel length of the scale bar
ScaleBarLength ==
    /\ pc = "scalebar"
    /\ ScaleBarPixels' = ScaleBarPixelsOf(options)
    /\ fs' = Logged(IF options.resize[1] # 0
                    THEN <<Line("resized"), Line("scale bar")>>
                    ELSE <<Line("scale bar")>>)
    /\ pc' = "stepwidth"
    /\ UNCHANGED <<options, status, error, OutFolder, ReconstructionNames, ImageShape,
                   longest_side, CommonPrefix, StepWidth, start, selected, c, rec,
                   draws, runs>>

\* lines 163-196: the common prefix and the step width
Sampling ==
    /\ pc = "stepwidth"
    /\ CommonPrefix' = CommonPrefixOf(ReconstructionNames)
    /\ StepWidth' = StepWidthOf(options, Len(ReconstructionNames))
    /\ fs' = Logged(<<Line("as requested"), Line("slice distance"), Line("rule"),
                      Line("uniform random sampling")>>)
    /\ pc' = "draw"
    /\ UNCHANGED <<options, status, error, OutFolder, ReconstructionNames, ImageShape,
                   longest_side, ScaleBarPixels, start, selected, c, rec, draws, runs>>

\* line 204, the iterable: ReconstructionNames[numpy.random.randint(StepWidth)::StepWidth]
RandomStart ==
    /\ pc = "draw"
    /\ draws' = draws + 1
    /\ IF RandintRange(StepWidth) = {}
       THEN /\ Exit("ValueError", 1)
            /\ UNCHANGED <<start, selected>>
       ELSE \E offset \in RandintRange(StepWidth) :
              /\ start' = offset
              /\ selected' = PySlice(ReconstructionNames, offset, StepWidth)
              /\ pc' = "for"
              /\ UNCHANGED <<error, status>>
    /\ UNCHANGED <<options, fs, OutFolder, ReconstructionNames, ImageShape,
                   longest_side, ScaleBarPixels, CommonPrefix, StepWidth, c, rec, runs>>

\* line 204, the loop: the next selected reconstruction, or the end of the loop
ForNext ==
    /\ pc = "for"
    /\ pc' = IF c < Len(selected) THEN "imread" ELSE "finish"
    /\ UNCHANGED <<options, status, error, fs, OutFolder, ReconstructionNames, ImageShape,
                   longest_side, ScaleBarPixels, CommonPrefix, StepWidth, start, selected,
                   c, rec, draws, runs>>

\* Output of lines 207-209 for the slice being exported
Output ==
    [kind |-> "export", c |-> SequenceNumber(c),
     N |-> Len(PySlice(ReconstructionNames, 0, StepWidth)),
     src |-> selected[c + 1], out |-> OutputName(CommonPrefix, c)]

\* lines 205-210: read the reconstruction
ReadSlice ==
    /\ pc = "imread"
    /\ \E readable \in BOOLEAN :
         IF readable
         THEN /\ rec' = [shape |-> ImageShape, bar |-> NoBar]
              /\ pc' = "bar"
              /\ UNCHANGED <<error, status>>
         ELSE /\ Exit("IOError", 1)
              /\ UNCHANGED rec
    /\ UNCHANGED <<options, fs, OutFolder, ReconstructionNames, ImageShape,
                   longest_side, ScaleBarPixels, CommonPrefix, StepWidth, start, selected,
                   c, draws, runs>>

\* lines 211-215: the white scale bar
DrawScaleBar ==
    /\ pc = "bar"
    /\ rec' = IF options.scalebar # 0
              THEN [rec EXCEPT !.bar = ScaleBarRegion(rec.shape, ScaleBarPixels)]
              ELSE rec
    /\ pc' = "imresize"
    /\ UNCHANGED <<options, status, error, fs, OutFolder, ReconstructionNames, ImageShape,
                   longest_side, ScaleBarPixels, CommonPrefix, StepWidth, start, selected,
                   c, draws, runs>>

\* lines 216-219: shrink
ResizeSlice ==
    /\ pc = "imresize"
    /\ rec' = IF options.resize[1] # 0
              THEN [rec EXCEPT !.shape = Resized(@, options.resize)]
              ELSE rec
    /\ pc' = "imsave"
    /\ UNCHANGED <<options, status, error, fs, OutFolder, ReconstructionNames, ImageShape,
                   longest_side, ScaleBarPixels, CommonPrefix, StepWidth, start, selected,
                   c, draws, runs>>

\* line 225: write the jpg; a failing write leaves no file or a truncated one
SaveSlice ==
    /\ pc = "imsave"
    /\ \E outcome \in {"written", "truncated", "nothing"} :
         LET file == [name |-> OutputName(CommonPrefix, c), src |-> selected[c + 1],
                      whole |-> outcome = "written"]
             others == {f \in fs[OutFolder].files : f.name # file.name}
         IN  /\ fs' = IF outcome = "nothing" THEN fs
                      ELSE [fs EXCEPT ![OutFolder].files = others \cup {file}]
             /\ IF outcome = "written"
                THEN pc' = "log" /\ UNCHANGED <<error, status>>
                ELSE Exit("IOError", 1)
    /\ UNCHANGED <<options, OutFolder, ReconstructionNames, ImageShape,
                   longest_side, ScaleBarPixels, CommonPrefix, StepWidth, start, selected,
                   c, rec, draws, runs>>

\* line 226: logging.info(Output), and the loop goes on
LogSlice ==
    /\ pc = "log"
    /\ fs' = Logged(<<Output>>)
    /\ c' = c + 1
    /\ pc' = "for"
    /\ UNCHANGED <<options, status, error, OutFolder, ReconstructionNames, ImageShape,
                   longest_side, ScaleBarPixels, CommonPrefix, StepWidth, start, selected,
                   rec, draws, runs>>

\* lines 230-231: the completion banner
Finish ==
    /\ pc = "finish"
    /\ fs' = Logged(<<Line("rule"), Line("finished")>>)
    /\ pc' = "done"
    /\ status' = 0
    /\ UNCHANGED <<options, error, OutFolder, ReconstructionNames, ImageShape,
                   longest_side, ScaleBarPixels, CommonPrefix, StepWidth, start, selected,
                   c, rec, draws, runs>>

Next ==
    \/ SanityCheck
    \/ GetPixelSize
    \/ MakeOutputDirectory
    \/ FindReconstructions
    \/ GetImageShape
    \/ ResizeFraction
    \/ SetupLogging
    \/ ScaleBarLength
    \/ Sampling
    \/ RandomStart
    \/ ForNext
    \/ ReadSlice
    \/ DrawScaleBar
    \/ ResizeSlice
    \/ SaveSlice
    \/ LogSlice
    \/ Finish

Spec == Init /\ [][Next]_vars

----------------------------------------------------------------------------
(* Running the script again on the same disk *)

\* the script is started a second time, with any command line of RerunOptionSpace
Rerun ==
    /\ pc \in {"exit", "done"}
    /\ runs = 1
    /\ runs' = runs + 1
    /\ \E opts \in RerunOptionSpace : options' = opts
    /\ pc' = "options"
    /\ status' = -1
    /\ error' = "none"
    /\ OutFolder' = NoFolder
    /\ ReconstructionNames' = <<>>
    /\ ImageShape' = <<0, 0>>
    /\ longest_side' = 0
    /\ ScaleBarPixels' = 0
    /\ CommonPrefix' = <<>>
    /\ StepWidth' = 0
    /\ start' = 0
    /\ selected' = <<>>
    /\ c' = 0
    /\ rec' = NoImage
    /\ draws' = 0
    /\ UNCHANGED fs

InitRerun ==
    /\ \E opts \in RerunOptionSpace : Started(opts)
    /\ fs = [f \in {} |-> EmptyFolder]
    /\ runs = 1

NextRerun == Next \/ Rerun

SpecRerun == InitRerun /\ [][NextRerun]_vars

----------------------------------------------------------------------------
(* Line 167 alone, one method call at a time, on stacks of any stem and size *)

Stems == {"Sample", "Lung", "rat", "Sample_IR"}

InitPrefix ==
    /\ \E stem \in Stems, total \in 1..MaxStack :
         ReconstructionNames = Sorted(GlobRecs(stem, total))
    /\ pc = "commonprefix"
    /\ CommonPrefix = <<>>
    /\ options \in RerunOptionSpace /\ options.numfiles = 2 /\ options.slicedistance = 0
    /\ options.pixelsize = 20
    /\ status = -1
    /\ error = "none"
    /\ fs = [f \in {} |-> EmptyFolder]
    /\ OutFolder = NoFolder
    /\ ImageShape = <<0, 0>>
    /\ longest_side = 0
    /\ ScaleBarPixels = 0
    /\ StepWidth = 0
    /\ start = 0
    /\ selected = <<>>
    /\ c = 0
    /\ rec = NoImage
    /\ draws = 0
    /\ runs = 1

PrefixStep(at, value, to) ==
    /\ pc = at
    /\ CommonPrefix' = value
    /\ pc' = to
    /\ UNCHANGED <<options, status, error, fs, OutFolder, ReconstructionNames, ImageShape,
                   longest_side, ScaleBarPixels, StepWidth, start, selected, c, rec,
                   draws, runs>>

PrefixCommon == PrefixStep("commonprefix", LastComponent(commonprefix(ReconstructionNames)), "rstrip")
PrefixZeros == PrefixStep("rstrip", StripZeros(CommonPrefix), "strip rec")
PrefixRec == PrefixStep("strip rec", StripRec(CommonPrefix), "strip IR")
PrefixIR == PrefixStep("strip IR", StripIR(CommonPrefix), "prefixed")

NextPrefix == PrefixCommon \/ PrefixZeros \/ PrefixRec \/ PrefixIR

SpecPrefix == InitPrefix /\ [][NextPrefix]_vars

----------------------------------------------------------------------------
(* Claims *)

Total == Len(ReconstructionNames)
ByCount == options.numfiles # 0 /\ options.slicedistance = 0
ByDistance == options.slicedistance # 0 /\ options.numfiles = 0
\* numpy.random.randint has returned a start
StartDrawn == draws >= 1 /\ error # "ValueError"
\* the run owns an output folder
HasFolder == OutFolder \in DOMAIN fs
Files == fs[OutFolder].files
Log == fs[OutFolder].log
IsExport(line) == line.kind = "export"
ExportLines == SelectSeq(Log, IsExport)
Abs(x) == IF x < 0 THEN -x ELSE x

\* C1 as stated: in count mode with 1 <= requested <= total, the step width is
\* at least 1 and, whatever start is drawn, the number of selected slices is
\* within 1 of the requested number.
C1_WithinOneOfRequested ==
    (StartDrawn /\ ByCount /\ options.numfiles <= Total)
        => /\ StepWidth >= 1
           /\ Abs(Len(selected) - options.numfiles) <= 1

\* C1 amended: in count mode with 1 <= requested <= total, the step width is
\* at least 1, the start lies in [0, step width), and the number of selected
\* slices is floor(total/step) or floor(total/step)+1 and never less than the
\* requested number.
C1_AtLeastRequested ==
    (draws >= 1 /\ ByCount /\ options.numfiles <= Total)
        => /\ StepWidth >= 1
           /\ StartDrawn
           /\ start \in 0..(StepWidth - 1)
           /\ Len(selected) \in {Total \div StepWidth, Total \div StepWidth + 1}
           /\ Len(selected) >= options.numfiles

\* 3 of 5 requested: every slice is selected, two more than requested
C1_Witness ==
    /\ StartDrawn /\ ByCount
    /\ options.numfiles = 3 /\ Total = 5
    /\ Len(selected) = 5

\* C2: a step of a run whose output folder name is already on disk ends the run
\* at os.makedirs with a non-zero status, and neither that step nor any step
\* before it or after the end of a run changes anything on disk.
C2_CollisionLeavesDisk ==
    [][/\ (pc = "makedirs" /\ OutFolderName(options) \in DOMAIN fs)
            => (pc' = "exit" /\ status' = 1 /\ fs' = fs)
       /\ (pc \in {"options", "pixelsize", "exit", "done"}) => fs' = fs]_vars

\* the second run has ended at the existing folder of a completed first run
C2_Witness ==
    /\ runs = 2
    /\ pc = "exit"
    /\ error = "sys.exit: output folder exists"
    /\ HasFolder
    /\ Files # {}
    /\ Line("finished") \in {Log[k] : k \in DOMAIN Log}

C4_UpscaleWithoutIO ==
    /\ error = "parser.error: will not upscale" => DOMAIN fs = {}
    /\ (pc \notin {"options", "pixelsize", "makedirs", "glob", "shape", "resize", "exit"}
          /\ options.resize[1] # 0) => options.resize[1] <= options.resize[2]

\* C5: with no sample folder, a sample folder that does not exist, neither or
\* both of -n and -s, the run is over right after the option checks, with a
\* message and a non-zero status, and has made no folder and read no slice.
C5_MissingInputEndsRun ==
    (/\ pc # "options"
     /\ \/ options.samplefolder \in {"", "Missing"}
        \/ options.numfiles = 0 /\ options.slicedistance = 0
        \/ options.numfiles # 0 /\ options.slicedistance # 0)
        => /\ pc = "exit"
           /\ status # 0
           /\ error # "none"
           /\ DOMAIN fs = {}
           /\ ReconstructionNames = <<>>

\* C6: the step width is 0 exactly when more slices are requested than there
\* are or the slice distance is below the pixel size, and a run that draws with
\* step width 0 fails there, with no slice written or logged.
C6_ZeroStepFails ==
    /\ (pc = "draw" \/ draws >= 1) =>
          (StepWidth = 0 <=> \/ ByCount /\ options.numfiles > Total
                             \/ ByDistance /\ options.slicedistance < options.pixelsize)
    /\ (draws >= 1 /\ StepWidth = 0) =>
          /\ pc = "exit"
          /\ error = "ValueError"
          /\ status # 0
          /\ selected = <<>>
          /\ Files = {}
          /\ ExportLines = <<>>

\* more slices requested than there are: the run has failed at the draw
C6_Witness ==
    /\ draws = 1
    /\ StepWidth = 0
    /\ ByCount
    /\ options.numfiles > Total
    /\ pc = "exit"

\* the suffix token tok removed from the end of s, when s ends with it
WithoutSuffix(s, tok) ==
    IF Len(s) >= Len(tok) /\ SubSeq(s, Len(s) - Len(tok) + 1, Len(s)) = tok
    THEN SubSeq(s, 1, Len(s) - Len(tok))
    ELSE s

\* C7: the prefix is the longest common leading part of the file names without
\* its trailing zeros, without a trailing '_rec' and then without a trailing
\* '_IR', all other characters kept; Sample_rec0001.png .. Sample_rec0099.png
\* give "Sample".
C7_PrefixKeepsStem ==
    pc = "prefixed" =>
        /\ CommonPrefix =
             WithoutSuffix(WithoutSuffix(rstrip(commonprefix(ReconstructionNames), {"0"}),
                                         Chars("_rec")),
                           Chars("_IR"))
        /\ ReconstructionNames = Sorted(GlobRecs("Sample", 99))
             => CommonPrefix = Chars("Sample")

\* prefix_n.jpg
NumberedName(n) == CommonPrefix \o Chars("_") \o Str(n) \o Chars(".jpg")

\* C8: at every point of a run that has its output folder, the export lines of
\* the log are those of slices 1..j in depth order, j the loop counter, each
\* logged slice has its complete file, the files are prefix_1.jpg ..
\* prefix_m.jpg with m = j or j + 1, and the completion banner is there only
\* when all selected slices are logged.
C8_LogFollowsFiles ==
    HasFolder =>
        LET j == Len(ExportLines)
            names == {f.name : f \in Files}
        IN  /\ j = c
            /\ j <= Len(selected)
            /\ \A n \in 1..j :
                 /\ ExportLines[n].c = n
                 /\ ExportLines[n].src = selected[n]
                 /\ ExportLines[n].out = NumberedName(n)
                 /\ [name |-> NumberedName(n), src |-> selected[n], whole |-> TRUE] \in Files
            /\ \A n \in 1..(j - 1) : StrLess(ExportLines[n].src, ExportLines[n + 1].src)
            /\ Cardinality(Files) = Cardinality(names)
            /\ \E m \in {j, j + 1} :
                 /\ m <= Len(selected)
                 /\ names = {NumberedName(n) : n \in 1..m}
            /\ Line("finished") \in {Log[k] : k \in DOMAIN Log}
                 => (j = Len(selected) /\ Cardinality(Files) = j
                     /\ Log[Len(Log)] = Line("finished"))

\* the run was aborted at its third slice, whose file has no log line
C8_Witness ==
    /\ HasFolder
    /\ pc = "exit"
    /\ error = "IOError"
    /\ Len(ExportLines) = 2
    /\ Cardinality(Files) = 3

\* C9: a scale bar is stamped only on an image of at least margin + bar in
\* both directions (a smaller image ends the run), and the stamped rectangle is
\* ScaleBarPixels wide, round(ScaleBarPixels/10) high and ends fromborder
\* pixels from the right and bottom edges.
C9_ScaleBarInsideImage ==
    (pc = "imresize" /\ options.scalebar # 0) =>
        LET rows == rec.shape[1]
            columns == rec.shape[2]
            high == RoundHalfEven(ScaleBarPixels, 10)
        IN  /\ columns >= fromborder + ScaleBarPixels
            /\ rows >= fromborder + high
            /\ rec.bar.cols = <<columns - fromborder - ScaleBarPixels, columns - fromborder>>
            /\ rec.bar.rows = <<rows - fromborder - high, rows - fromborder>>

\* C10: the total N of every logged export line is the number of slices the
\* run exports; the last line of a completed run reads k/k.
C10_TotalIsExported ==
    HasFolder =>
        /\ \A n \in DOMAIN ExportLines : ExportLines[n].N = Len(selected)
        /\ (pc = "done" /\ ExportLines # <<>>)
             => ExportLines[Len(ExportLines)].c = ExportLines[Len(ExportLines)].N

====
